---- MODULE Spec2Model ----
(***************************************************************************)
(* MyDo: the task store, the view engine and the focus timer of the        *)
(* single-page task manager (src/unnamed/part_000, second copy, lines      *)
(* 496-1275; src/src/App.jsx is the reduced build of the same component).  *)
(*                                                                         *)
(* Strings are sequences of one-character strings, so that trim, split,    *)
(* toLowerCase and includes are computed and not assumed.  A calendar date *)
(* ("YYYY-MM-DD") is the number of days since 2024-01-01; an instant (a JS *)
(* Date / an ISO timestamp) is a number of ticks, TicksPerDay to the day,  *)
(* counted from 2024-01-01T00:00Z.  The host time zone is the offset tz in *)
(* ticks between local time and UTC (daylight saving is not modelled).     *)
(***************************************************************************)
EXTENDS Integers, Sequences, FiniteSets, Bags, TLC

VARIABLES
    tasks,        \* useState tasks: the in-memory collection (an array)
    view,         \* useState view: [type, key]
    q,            \* useState q: the search query
    now,          \* the clock: the current instant, in ticks
    tz,           \* the host's offset from UTC, in ticks
    lsTasks,      \* localStorage["mydo.tasks"]
    lsView,       \* localStorage["mydo.view"]
    reading,      \* number of FileReader reads in flight (importJSON called, onload not yet)
    nextId,       \* the next value uuidv4() returns
    dur,          \* usePomodoro: configured durations [work, break]
    mode,         \* usePomodoro: "work" | "break"
    secs,         \* usePomodoro: seconds remaining
    running,      \* usePomodoro: running flag
    boundTaskId,  \* usePomodoro: bound task id or Null
    flips,        \* usePomodoro: the seconds each zero-crossing effect that has run handed to
                  \*   setSecs (with a setMode flip), not rendered yet
    intervals,    \* usePomodoro: the setInterval registrations not cleared yet
    download,     \* the files exportJSON has saved: none, or the latest document
    page,         \* "mounted", "denied" (mounted, localStorage.setItem throws) or
                  \*   "unmounted" (an uncaught error in an effect removed the tree)
    last          \* history: the last handler run, the id it was given, how it ended

vars == <<tasks, view, q, now, tz, download, lsTasks, lsView, reading, nextId,
          dur, mode, secs, running, boundTaskId, flips, intervals, page, last>>

pomoVars == <<dur, mode, secs, running, boundTaskId, flips>>

-----------------------------------------------------------------------------
(* Bounds of the model *)

MaxTasks == 2      \* longest collection explored
MaxIds == 2        \* ids uuidv4() hands out before the model stops adding
MaxTicks == 1      \* ticks the clock advances
MaxReading == 1    \* FileReader reads in flight at once

-----------------------------------------------------------------------------
(* Values *)

Null == -1         \* JS null / undefined / "" where a timestamp or date is expected
TicksPerDay == 2   \* instants per calendar day

PRIORITIES == <<"Low", "Med", "High", "Urgent">>
RECUR_OPTS == <<"none", "daily", "weekly", "monthly">>

TimeZones == {-1, 0, 1}

Undefined == "undefined"   \* a string member a task does not have (undefined / null)

-----------------------------------------------------------------------------
(* String helpers (String.prototype.trim / split / toLowerCase / includes,  *)
(* Array.prototype.join)                                                    *)

IsSpace(c) == c = " "

RECURSIVE trimStart(_)
trimStart(s) ==
    IF s = <<>> THEN s
    ELSE IF IsSpace(Head(s)) THEN trimStart(Tail(s)) ELSE s

RECURSIVE trimEnd(_)
trimEnd(s) ==
    IF s = <<>> THEN s
    ELSE IF IsSpace(s[Len(s)]) THEN trimEnd(SubSeq(s, 1, Len(s) - 1)) ELSE s

trim(s) == trimEnd(trimStart(s))

RECURSIVE splitAcc(_, _, _, _)
splitAcc(s, sep, cur, out) ==
    IF s = <<>> THEN Append(out, cur)
    ELSE IF Head(s) = sep THEN splitAcc(Tail(s), sep, <<>>, Append(out, cur))
    ELSE splitAcc(Tail(s), sep, Append(cur, Head(s)), out)

split(s, sep) == splitAcc(s, sep, <<>>, <<>>)

lowerChar(c) == IF c = "A" THEN "a" ELSE IF c = "B" THEN "b" ELSE IF c = "X" THEN "x" ELSE c

toLowerCase(s) == [i \in 1..Len(s) |-> lowerChar(s[i])]

RECURSIVE join(_, _)
join(parts, sep) ==
    IF parts = <<>> THEN <<>>
    ELSE IF Len(parts) = 1 THEN parts[1]
    ELSE parts[1] \o sep \o join(Tail(parts), sep)

includes(hay, needle) ==
    \E i \in 0..(Len(hay) - Len(needle)) : SubSeq(hay, i + 1, i + Len(needle)) = needle

\* Boolean(x) for a string
truthyStr(s) == s # <<>>

-----------------------------------------------------------------------------
(* Calendar and Date arithmetic *)

DaysIn == <<31, 28, 31, 30, 31, 30, 31, 31, 30, 31, 30, 31>>

\* m counts months from January 2024
MonthLen(m) ==
    IF m % 12 = 1 /\ (m \div 12) % 4 = 0 THEN 29 ELSE DaysIn[(m % 12) + 1]

RECURSIVE StartOfMonth(_)
StartOfMonth(m) == IF m = 0 THEN 0 ELSE StartOfMonth(m - 1) + MonthLen(m - 1)

RECURSIVE MonthFrom(_, _)
MonthFrom(d, m) == IF d < StartOfMonth(m + 1) THEN m ELSE MonthFrom(d, m + 1)

MonthOf(d) == MonthFrom(d, 0)
DayOfMonth(d) == d - StartOfMonth(MonthOf(d)) + 1

\* new Date("YYYY-MM-DD"): midnight UTC of that date
DateParse(d) == d * TicksPerDay
\* Date.prototype.toISOString().slice(0, 10): the UTC calendar date
isoDate(inst) == inst \div TicksPerDay
\* the local calendar date of an instant (toDateString, getDate, getMonth)
localDay(inst, zone) == (inst + zone) \div TicksPerDay
localTime(inst, zone) == (inst + zone) % TicksPerDay
\* the instant at which the local clock shows the given day and time of day
fromLocal(day, tod, zone) == day * TicksPerDay + tod - zone

\* Date.prototype.setDate(getDate() + k)
addLocalDays(inst, k, zone) ==
    fromLocal(localDay(inst, zone) + k, localTime(inst, zone), zone)

\* Date.prototype.setMonth(getMonth() + 1): same day-of-month in the next month,
\* a day-of-month past the month's end running over into the month after
addLocalMonth(inst, zone) ==
    LET ld == localDay(inst, zone)
    IN  fromLocal(StartOfMonth(MonthOf(ld) + 1) + DayOfMonth(ld) - 1,
                  localTime(inst, zone), zone)

todayISOAt(t) == isoDate(t)
todayISO == todayISOAt(now)

isSameDayIn(a, b, zone) ==
    a # Null /\ b # Null /\ localDay(DateParse(a), zone) = localDay(DateParse(b), zone)
isSameDay(a, b) == isSameDayIn(a, b, tz)

nextRecurringDateIn(date, recur, clock, zone) ==
    LET d == IF date # Null THEN DateParse(date) ELSE clock
    IN  IF recur = "daily" THEN isoDate(addLocalDays(d, 1, zone))
        ELSE IF recur = "weekly" THEN isoDate(addLocalDays(d, 7, zone))
        ELSE IF recur = "monthly" THEN isoDate(addLocalMonth(d, zone))
        ELSE Null
nextRecurringDate(date, recur) == nextRecurringDateIn(date, recur, now, tz)

-----------------------------------------------------------------------------
(* Tasks *)

Task(id, title, notes, project, labels, priority, due, recur, createdAt, completedAt, archived) ==
    [id |-> id, title |-> title, notes |-> notes, project |-> project, labels |-> labels,
     priority |-> priority, due |-> due, recur |-> recur, createdAt |-> createdAt,
     completedAt |-> completedAt, archived |-> archived]

\* The fields a draft handed to addTask carries (everything but id and createdAt)
Draft(title, notes, project, labels, priority, due, recur, completedAt, archived) ==
    [title |-> title, notes |-> notes, project |-> project, labels |-> labels,
     priority |-> priority, due |-> due, recur |-> recur,
     completedAt |-> completedAt, archived |-> archived]

Ids(list) == {list[i].id : i \in 1..Len(list)}

\* !t.completedAt
notCompleted(t) == t.completedAt = Null

\* t.recur && t.recur !== "none"
recurs(t) == t.recur # "" /\ t.recur # "none"

\* isSameDay(t.due, todayISO()) || (t.due && new Date(t.due) < new Date())
dueTodayOrBeforeAt(t, clock, zone) ==
    \/ isSameDayIn(t.due, todayISOAt(clock), zone)
    \/ (t.due # Null /\ DateParse(t.due) < clock)
dueTodayOrBefore(t) == dueTodayOrBeforeAt(t, now, tz)

-----------------------------------------------------------------------------
(* Task Store: the state transformers handed to setTasks *)

\* addTask: [{...t, id: uuidv4(), createdAt: now}, ...prev]
addTaskFn(prev, t, id, clock) ==
    <<Task(id, t.title, t.notes, t.project, t.labels, t.priority, t.due, t.recur,
           clock, t.completedAt, t.archived)>> \o prev

\* toggleDone: prev.flatMap(...); every uuidv4() call draws the next id.
\* Result: [list, nid] with nid the next unused id.
RECURSIVE toggleDoneFn(_, _, _, _, _)
toggleDoneFn(prev, id, nid, clock, zone) ==
    IF prev = <<>> THEN [list |-> <<>>, nid |-> nid]
    ELSE
      LET t == Head(prev)
          completed == notCompleted(t)
          base == [t EXCEPT !.completedAt = IF completed THEN clock ELSE Null]
          spawn == t.id = id /\ completed /\ recurs(t)
          nd == nextRecurringDateIn(IF t.due # Null THEN t.due ELSE todayISOAt(clock),
                                    t.recur, clock, zone)
          next == [t EXCEPT !.id = nid, !.createdAt = clock, !.completedAt = Null, !.due = nd]
          rest == toggleDoneFn(Tail(prev), id, IF spawn THEN nid + 1 ELSE nid, clock, zone)
      IN  IF t.id # id THEN [list |-> <<t>> \o rest.list, nid |-> rest.nid]
          ELSE IF spawn THEN [list |-> <<base, next>> \o rest.list, nid |-> rest.nid]
          ELSE [list |-> <<base>> \o rest.list, nid |-> rest.nid]

\* the filter inverted: prev.filter((t) => t.id === id)
removeTaskFn_Inverted(prev, id) == SelectSeq(prev, LAMBDA t : t.id = id)

\* removeTask: prev.filter((t) => t.id !== id)
removeTaskFn(prev, id) == SelectSeq(prev, LAMBDA t : t.id # id)

\* archiveTask: prev.map((t) => (t.id === id ? { ...t, archived: true } : t))
archiveTaskFn(prev, id) ==
    [i \in 1..Len(prev) |-> IF prev[i].id = id THEN [prev[i] EXCEPT !.archived = TRUE]
                            ELSE prev[i]]

\* { ...t, ...patch }
merge(t, patch) ==
    [f \in DOMAIN t \cup DOMAIN patch |-> IF f \in DOMAIN patch THEN patch[f] ELSE t[f]]

\* updateTask: prev.map((t) => (t.id === id ? { ...t, ...patch } : t))
updateTaskFn(prev, id, patch) ==
    [i \in 1..Len(prev) |-> IF prev[i].id = id THEN merge(prev[i], patch) ELSE prev[i]]

\* a bulk completion that takes the tasks due today only, leaving the overdue ones
bulkCompleteTodayFn_TodayOnly(prev, clock, zone) ==
    [i \in 1..Len(prev) |->
        IF notCompleted(prev[i]) /\ isSameDayIn(prev[i].due, todayISOAt(clock), zone)
        THEN [prev[i] EXCEPT !.completedAt = clock]
        ELSE prev[i]]

\* bulkCompleteToday: prev.map(...)
bulkCompleteTodayFn(prev, clock, zone) ==
    [i \in 1..Len(prev) |->
        IF notCompleted(prev[i]) /\ dueTodayOrBeforeAt(prev[i], clock, zone)
        THEN [prev[i] EXCEPT !.completedAt = clock]
        ELSE prev[i]]

-----------------------------------------------------------------------------
(* View Engine *)

\* inNextDays(d, n)
inNextDaysAt(d, n, clock, zone) ==
    IF d = Null THEN FALSE
    ELSE LET due == DateParse(d)
             lim == addLocalDays(clock, n, zone)
             midnight == fromLocal(localDay(clock, zone), 0, zone)
         IN  due >= midnight /\ due <= lim
inNextDays(d, n) == inNextDaysAt(d, n, now, tz)

\* [t.title, t.notes, t.project, ...(t.labels || [])].filter(Boolean).join(" ").toLowerCase()
haystack(t) ==
    toLowerCase(join(SelectSeq(<<t.title, t.notes, t.project>> \o t.labels, truthyStr),
                     <<" ">>))

\* the text filter of filtered
matches(t, query) == includes(haystack(t), toLowerCase(query))

\* Array.prototype.indexOf
indexOf(arr, x) ==
    IF \E i \in 1..Len(arr) : arr[i] = x
    THEN (CHOOSE i \in 1..Len(arr) : arr[i] = x /\ \A j \in 1..(i - 1) : arr[j] # x) - 1
    ELSE -1

\* PRIORITIES.indexOf(p ?? "Low")
pRank(p) == indexOf(PRIORITIES, IF p = Undefined THEN "Low" ELSE p)

\* the comparator with the priorities the other way round
compareTasks_PriorityAscending(a, b) ==
    IF a.due # b.due
    THEN (IF a.due = Null THEN 1
          ELSE IF b.due = Null THEN -1
          ELSE DateParse(a.due) - DateParse(b.due))
    ELSE IF pRank(b.priority) # pRank(a.priority)
    THEN pRank(a.priority) - pRank(b.priority)
    ELSE a.createdAt - b.createdAt

\* The comparator handed to list.sort: negative when a goes first
compareTasks(a, b) ==
    IF a.due # b.due
    THEN (IF a.due = Null THEN 1
          ELSE IF b.due = Null THEN -1
          ELSE DateParse(a.due) - DateParse(b.due))
    ELSE IF pRank(b.priority) # pRank(a.priority)
    THEN pRank(b.priority) - pRank(a.priority)
    ELSE a.createdAt - b.createdAt

\* Array.prototype.sort is stable: x goes before the first element that must follow it
RECURSIVE insertSorted(_, _)
insertSorted(sorted, x) ==
    IF sorted = <<>> THEN <<x>>
    ELSE IF compareTasks(Head(sorted), x) > 0 THEN <<x>> \o sorted
    ELSE <<Head(sorted)>> \o insertSorted(Tail(sorted), x)

RECURSIVE sortTasks(_)
sortTasks(list) ==
    IF list = <<>> THEN <<>>
    ELSE insertSorted(sortTasks(SubSeq(list, 1, Len(list) - 1)), list[Len(list)])

\* the switch with a project case that forgets the completion test
kindFilter_ProjectKeepsCompleted(all, list, v, clock, zone) ==
    CASE v.type = "inbox" -> SelectSeq(list, notCompleted)
      [] v.type = "today" ->
            SelectSeq(list, LAMBDA t : notCompleted(t) /\ dueTodayOrBeforeAt(t, clock, zone))
      [] v.type = "upcoming" ->
            SelectSeq(list, LAMBDA t : notCompleted(t) /\ inNextDaysAt(t.due, 7, clock, zone))
      [] v.type = "project" -> SelectSeq(list, LAMBDA t : t.project = v.key)
      [] v.type = "label" ->
            SelectSeq(list, LAMBDA t : (\E i \in 1..Len(t.labels) : t.labels[i] = v.key)
                                        /\ notCompleted(t))
      [] v.type = "completed" -> SelectSeq(list, LAMBDA t : ~notCompleted(t))
      [] v.type = "archive" -> SelectSeq(all, LAMBDA t : t.archived)
      [] OTHER -> list

\* the switch (view.type) of filtered
kindFilter(all, list, v, clock, zone) ==
    CASE v.type = "inbox" -> SelectSeq(list, notCompleted)
      [] v.type = "today" ->
            SelectSeq(list, LAMBDA t : notCompleted(t) /\ dueTodayOrBeforeAt(t, clock, zone))
      [] v.type = "upcoming" ->
            SelectSeq(list, LAMBDA t : notCompleted(t) /\ inNextDaysAt(t.due, 7, clock, zone))
      [] v.type = "project" ->
            SelectSeq(list, LAMBDA t : t.project = v.key /\ notCompleted(t))
      [] v.type = "label" ->
            SelectSeq(list, LAMBDA t : (\E i \in 1..Len(t.labels) : t.labels[i] = v.key)
                                        /\ notCompleted(t))
      [] v.type = "completed" -> SelectSeq(list, LAMBDA t : ~notCompleted(t))
      [] v.type = "archive" -> SelectSeq(all, LAMBDA t : t.archived)
      [] OTHER -> list

\* filtered without the archive exclusion
filteredOf_KeepsArchived(all, v, query, clock, zone) ==
    LET found == IF truthyStr(query)
                 THEN SelectSeq(all, LAMBDA t : matches(t, query))
                 ELSE all
    IN  sortTasks(kindFilter(all, found, v, clock, zone))

\* filtered (part_000): archive exclusion, text filter, kind filter, sort
filteredOf(all, v, query, clock, zone) ==
    LET active == SelectSeq(all, LAMBDA t : ~t.archived)
        found == IF truthyStr(query)
                 THEN SelectSeq(active, LAMBDA t : matches(t, query))
                 ELSE active
    IN  sortTasks(kindFilter(all, found, v, clock, zone))
filtered == filteredOf(tasks, view, q, now, tz)

\* filtered (src/App.jsx): archive exclusion, text filter, and for the today view
\* the not-completed tasks due today; no other kind is filtered, nothing is sorted
App_filteredOf(all, v, query, clock, zone) ==
    LET active == SelectSeq(all, LAMBDA t : ~t.archived)
        found == IF truthyStr(query)
                 THEN SelectSeq(active, LAMBDA t : matches(t, query))
                 ELSE active
    IN  IF v.type = "today"
        THEN SelectSeq(found, LAMBDA t : notCompleted(t)
                                         /\ isSameDayIn(t.due, todayISOAt(clock), zone))
        ELSE found
App_filtered == App_filteredOf(tasks, view, q, now, tz)

-----------------------------------------------------------------------------
(* Inputs explored *)

sEmpty == <<>>
sA == <<"a">>
sB == <<"b">>
sX == <<"x">>
sUntitled == <<"U", "n", "t", "i", "t", "l", "e", "d", " ", "T", "a", "s", "k">>

Jan31 == StartOfMonth(1) - 1     \* 2024-01-31
Jan30 == Jan31 - 1               \* 2024-01-30
StartNow == DateParse(Jan31)     \* the clock at start-up: 2024-01-31T00:00Z
MaxNow == StartNow + MaxTicks    \* the last instant of the clock

\* What the user typed into AddTaskForm: title, notes, project and labels are raw text
FormInputs == {
    [title |-> <<" ", "a", " ">>, notes |-> sEmpty, project |-> <<"p", " ">>,
     labels |-> <<"x", ",", " ", "x">>, priority |-> "Med", due |-> Jan31, recur |-> "none"],
    [title |-> sB, notes |-> sEmpty, project |-> sEmpty,
     labels |-> sEmpty, priority |-> "High", due |-> Null, recur |-> "daily"],
    [title |-> <<" ", " ">>, notes |-> sA, project |-> sEmpty,
     labels |-> sEmpty, priority |-> "Med", due |-> Null, recur |-> "none"],
    [title |-> sEmpty, notes |-> sEmpty, project |-> sEmpty,
     labels |-> sX, priority |-> "Low", due |-> Jan30, recur |-> "daily"] }

\* What the user typed into the header Quick Add box
QuickAddInputs == { sEmpty, <<" ">>, <<"a", " ">> }

\* Drafts handed to addTask directly (the add operation of the store)
AddDrafts == {
    Draft(sX, sEmpty, sEmpty, <<sX>>, "Urgent", Jan30, "none", StartNow, TRUE) }

\* Patches handed to updateTask; the first is the Reset button's
ResetPatch == [archived |-> FALSE, completedAt |-> Null]
Patches == { ResetPatch }

\* Tasks found in imported files, made and completed before this session started;
\* their ids were handed out by an earlier session, 101 to two of them
ImportedIds == {101, 102}
I1 == Task(101, sA, sEmpty, sEmpty, <<>>, "Low", Null, "none", StartNow - 10, Null, FALSE)
I2 == Task(101, sB, sEmpty, sEmpty, <<sX>>, "High", Jan30, "weekly", StartNow - 9,
           StartNow - 5, FALSE)
I3 == Task(102, sX, sEmpty, sA, <<>>, "Med", Jan31, "monthly", StartNow - 8, Null, TRUE)

\* The content of an imported file after JSON.parse: kind is "unparseable" when
\* JSON.parse throws, else the JSON type of the value; for an object, tasksIs tells
\* whether it has a tasks member and whether that is an array; items is that array,
\* or the value itself when it is a bare array.
Payload(kind, tasksIs, items) == [kind |-> kind, tasksIs |-> tasksIs, items |-> items]

Payloads == {
    Payload("unparseable", "absent", <<>>),     \* not JSON
    Payload("null", "absent", <<>>),            \* null
    Payload("number", "absent", <<>>),          \* 7
    Payload("object", "absent", <<>>),          \* {"foo": 1}
    Payload("object", "other", <<>>),           \* {"tasks": 7}
    Payload("object", "array", <<I1, I2>>),     \* {"v": 1, "tasks": [I1, I2]}
    Payload("object", "array", <<>>),           \* {"v": 1, "tasks": []}
    Payload("array", "absent", <<I3, I1>>) }    \* [I3, I1]

\* Ids a handler may be called with: the ids in the collection and one that no
\* task has (an id never handed out, or the id of a task removed since)
UnknownIds == {999}
IdInputs == Ids(tasks) \cup UnknownIds

-----------------------------------------------------------------------------
(* Persistence: useEffect(() => saveLS("mydo.tasks", tasks), [tasks]) runs  *)
(* after every setTasks, before the next event is handled                   *)

\* out: "" when the handler ran through, "return" when it returned early, else the
\* text it passed to alert()
Last(op, id, out) == [op |-> op, id |-> id, out |-> out]

\* saveLS(k, v): what localStorage holds under k afterwards, stored being what it held
saveLS(stored, v) == IF page = "denied" THEN stored ELSE v

\* A saveLS that throws leaves its effect with an uncaught error, and React removes
\* the whole tree (there is no error boundary)
afterSave == IF page = "denied" THEN "unmounted" ELSE page

\* Unmounting runs the cleanup of every effect: clearInterval(id)
afterUnmount == IF afterSave = "unmounted" THEN 0 ELSE intervals

\* setTasks(list) with no save effect after it
SetTasks_NoSave(list) ==
    /\ tasks' = list
    /\ UNCHANGED <<lsTasks, page, intervals>>

\* setTasks(list) followed by the save effect
SetTasks(list) ==
    /\ tasks' = list
    /\ lsTasks' = saveLS(lsTasks, list)
    /\ page' = afterSave
    /\ intervals' = afterUnmount

pomoInitial == [work |-> 25 * 60, break |-> 5 * 60]

Init ==
    /\ tasks = <<>>
    /\ view = [type |-> "today", key |-> sEmpty]
    /\ q = sEmpty
    /\ now = StartNow
    /\ tz \in TimeZones \ {1}    \* east of Greenwich every store handler behaves as at UTC
    /\ lsTasks = <<>>
    /\ lsView = [type |-> "today", key |-> sEmpty]
    /\ reading = 0
    /\ nextId = 1
    /\ dur = pomoInitial
    /\ mode = "work"
    /\ secs = pomoInitial.work
    /\ running = FALSE
    /\ boundTaskId = Null
    /\ flips = <<>>
    /\ intervals = 0
    /\ download = <<>>
    /\ page = "mounted"
    /\ last = Last("init", Null, "")

\* Everything a task-store handler leaves alone
StoreFrame == UNCHANGED <<view, q, now, tz, download, lsView, reading, dur, mode, secs, running,
                          boundTaskId, flips>>

-----------------------------------------------------------------------------
(* Task Store: the handlers *)

\* addTask(t)
addTask(t) ==
    /\ Len(tasks) < MaxTasks
    /\ nextId <= MaxIds
    /\ SetTasks(addTaskFn(tasks, t, nextId, now))
    /\ nextId' = nextId + 1

\* The store's add operation called with a draft
AddTask(t) ==
    /\ addTask(t)
    /\ last' = Last("addTask", Null, "")
    /\ StoreFrame

\* labels ? labels.split(",").map((s) => s.trim()).filter(Boolean) : []
formLabels(raw) ==
    IF truthyStr(raw)
    THEN LET parts == split(raw, ",")
         IN  SelectSeq([i \in 1..Len(parts) |-> trim(parts[i])], truthyStr)
    ELSE <<>>

\* The draft AddTaskForm's submit handler builds from the form fields
formDraft(f) ==
    Draft(trim(f.title), f.notes, trim(f.project), formLabels(f.labels),
          f.priority, f.due, f.recur, Null, FALSE)

\* the guard without the trim: if (!title) return;
formRejects_NoTrim(f) == ~truthyStr(f.title)

\* if (!title.trim()) return;
formRejects(f) == ~truthyStr(trim(f.title))

\* What AddTaskForm's onSubmit makes of the collection
formSubmitFn(prev, f, id, clock) ==
    IF formRejects(f) THEN prev ELSE addTaskFn(prev, formDraft(f), id, clock)

\* AddTaskForm: the form's onSubmit (the Create button)
AddTaskFormSubmit(f) ==
    /\ IF formRejects(f)
       THEN UNCHANGED <<tasks, lsTasks, nextId, page, intervals>>
       ELSE /\ Len(tasks) < MaxTasks
            /\ nextId <= MaxIds
            /\ SetTasks(formSubmitFn(tasks, f, nextId, now))
            /\ nextId' = nextId + 1
    /\ last' = Last("formSubmit", Null, IF formRejects(f) THEN "return" ELSE "")
    /\ StoreFrame

\* The draft of AddTaskForm's Quick button
quickDraft == Draft(sUntitled, sEmpty, sEmpty, <<>>, "Low", Null, "none", Null, FALSE)

\* AddTaskForm: the Quick button; it does not read the form fields
AddTaskFormQuick ==
    /\ addTask(quickDraft)
    /\ last' = Last("formQuick", Null, "")
    /\ StoreFrame

\* if (!val.trim()) return;
quickAddRejects(val) == ~truthyStr(trim(val))

\* What QuickAdd writes to localStorage["mydo.tasks"], stored being what it read there
quickAddFn(stored, val, id, clock) ==
    IF quickAddRejects(val) THEN stored
    ELSE <<Task(id, trim(val), sEmpty, sEmpty, <<>>, "Low", Null, "none", clock, Null,
                FALSE)>> \o stored

\* QuickAdd (header): writes localStorage itself and reloads the page, which
\* re-creates every piece of component state from its initial value
QuickAdd(val) ==
    /\ last' = Last("quickAdd", Null, IF quickAddRejects(val) THEN "return"
                                      ELSE IF page = "denied" THEN "throw" ELSE "")
    /\ IF quickAddRejects(val) \/ page = "denied"
       THEN \* the early return, or setItem throws inside the event handler, before the
            \* reload: the error is reported and the tree stays
            UNCHANGED <<tasks, lsTasks, nextId, view, q, reading, dur, mode, secs,
                        running, boundTaskId, flips, page, intervals>>
       ELSE /\ Len(lsTasks) < MaxTasks
            /\ nextId <= MaxIds
            /\ lsTasks' = quickAddFn(lsTasks, val, nextId, now)
            /\ tasks' = lsTasks'      \* loadLS("mydo.tasks", []) after the reload
            /\ nextId' = nextId + 1
            /\ view' = lsView
            /\ q' = sEmpty
            /\ reading' = 0
            /\ dur' = pomoInitial
            /\ mode' = "work"
            /\ secs' = pomoInitial.work
            /\ running' = FALSE
            /\ boundTaskId' = Null
            /\ flips' = <<>>
            /\ page' = "mounted"
            /\ intervals' = 0
    /\ UNCHANGED <<now, tz, download, lsView>>

\* toggleDone(id)
toggleDone(id) ==
    LET r == toggleDoneFn(tasks, id, nextId, now, tz)
    IN  /\ Len(r.list) <= MaxTasks
        /\ r.nid <= MaxIds + 1
        /\ SetTasks(r.list)
        /\ nextId' = r.nid
        /\ last' = Last("toggleDone", id, "")
        /\ StoreFrame

\* removeTask(id)
removeTask(id) ==
    /\ SetTasks(removeTaskFn(tasks, id))
    /\ last' = Last("removeTask", id, "")
    /\ UNCHANGED nextId
    /\ StoreFrame

\* archiveTask(id)
archiveTask(id) ==
    /\ SetTasks(archiveTaskFn(tasks, id))
    /\ last' = Last("archiveTask", id, "")
    /\ UNCHANGED nextId
    /\ StoreFrame

\* updateTask(id, patch)
updateTask(id, patch) ==
    /\ SetTasks(updateTaskFn(tasks, id, patch))
    /\ last' = Last("updateTask", id, "")
    /\ UNCHANGED nextId
    /\ StoreFrame

\* bulkCompleteToday()
bulkCompleteToday ==
    /\ SetTasks(bulkCompleteTodayFn(tasks, now, tz))
    /\ last' = Last("bulkCompleteToday", Null, "")
    /\ UNCHANGED nextId
    /\ StoreFrame

\* SettingsPane clearAll, the confirm dialog accepted: setTasks([])
clearAll ==
    /\ SetTasks(<<>>)
    /\ last' = Last("clearAll", Null, "")
    /\ UNCHANGED nextId
    /\ StoreFrame

-----------------------------------------------------------------------------
(* Import *)

\* importJSON(file): starts a FileReader; the file's content reaches the program
\* only in onload, so the model draws it there
importJSON ==
    /\ reading < MaxReading
    /\ reading' = reading + 1
    /\ UNCHANGED <<tasks, lsTasks, nextId, view, q, now, tz, download, lsView, dur, mode, secs,
                   running, boundTaskId, flips, intervals, page, last>>

\* an onload that takes a missing tasks member for an empty list:
\* setTasks(data.tasks || [])
onloadResult_DefaultsTasks(data) ==
    IF data.kind = "unparseable" \/ data.kind = "null"
    THEN [accept |-> FALSE, list |-> <<>>, alert |-> "Invalid file"]
    ELSE [accept |-> TRUE, list |-> data.items, alert |-> ""]

\* an onload that adds the imported tasks to the collection:
\* setTasks((prev) => [...prev, ...data.tasks])
onloadResult_Appends(data) ==
    IF data.kind = "unparseable" \/ data.kind = "null"
    THEN [accept |-> FALSE, list |-> <<>>, alert |-> "Invalid file"]
    ELSE IF (data.kind = "object" /\ data.tasksIs = "array") \/ data.kind = "array"
    THEN [accept |-> TRUE, list |-> tasks \o data.items, alert |-> ""]
    ELSE [accept |-> FALSE, list |-> <<>>, alert |-> "Invalid file format"]

\* The body of reader.onload: [accept, list, alert]
onloadResult(data) ==
    IF data.kind = "unparseable" \/ data.kind = "null"
    THEN \* JSON.parse throws, or data.tasks throws on null: the catch branch
         [accept |-> FALSE, list |-> <<>>, alert |-> "Invalid file"]
    ELSE IF data.kind = "object" /\ data.tasksIs = "array"
    THEN [accept |-> TRUE, list |-> data.items, alert |-> ""]
    ELSE IF data.kind = "array"
    THEN [accept |-> TRUE, list |-> data.items, alert |-> ""]
    ELSE [accept |-> FALSE, list |-> <<>>, alert |-> "Invalid file format"]

\* What reader.onload makes of the collection
onloadFn(prev, data) ==
    IF onloadResult(data).accept THEN onloadResult(data).list ELSE prev

\* reader.onload of a read in flight, data being what JSON.parse makes of the file
readerOnload(data) ==
    LET r == onloadResult(data)
    IN  /\ reading > 0
        /\ reading' = reading - 1
        /\ IF r.accept THEN SetTasks(onloadFn(tasks, data)) ELSE UNCHANGED <<tasks, lsTasks, page, intervals>>
        /\ last' = Last("onload", Null, r.alert)
        /\ UNCHANGED <<nextId, view, q, now, tz, download, lsView, dur, mode, secs, running,
                       boundTaskId, flips>>

-----------------------------------------------------------------------------
(* Clock *)

\* Time passes
ClockTick ==
    /\ now < MaxNow
    /\ now' = now + 1
    /\ UNCHANGED <<tasks, view, q, tz, download, lsTasks, lsView, reading, nextId, dur, mode, secs,
                   running, boundTaskId, flips, intervals, page, last>>

-----------------------------------------------------------------------------
(* The task store under every handler that changes the collection *)

Next ==
    \/ \E t \in AddDrafts : AddTask(t)
    \/ \E f \in FormInputs : AddTaskFormSubmit(f)
    \/ AddTaskFormQuick
    \/ \E val \in QuickAddInputs : QuickAdd(val)
    \/ \E id \in IdInputs : toggleDone(id)
    \/ \E id \in IdInputs : removeTask(id)
    \/ \E id \in IdInputs : archiveTask(id)
    \/ \E id \in IdInputs, patch \in Patches : updateTask(id, patch)
    \/ bulkCompleteToday
    \/ clearAll
    \/ importJSON
    \/ \E data \in Payloads : readerOnload(data)
    \/ ClockTick

Spec == Init /\ [][Next]_vars

-----------------------------------------------------------------------------
(* Properties of the task store.  A handler's effect on a reachable collection *)
(* is the value its state transformer gives there: toggled(id) for             *)
(* toggleDone(id), and so on.                                                   *)

UniqueIds(list) == \A i, j \in 1..Len(list) : i # j => list[i].id # list[j].id

IsBlank(s) == \A i \in 1..Len(s) : s[i] = " "

RecurKinds == {"daily", "weekly", "monthly"}

\* the collection after toggleDone(id)
toggled(id) == toggleDoneFn(tasks, id, nextId, now, tz).list

\* going from tasks to after, the not-completed recurring task at position i became
\* completed and one sibling joined the collection; nothing else changed
SpawnedOne(after, i) ==
    LET t == tasks[i]
        nd == nextRecurringDate(IF t.due # Null THEN t.due ELSE todayISO, t.recur)
    IN  /\ Len(after) = Len(tasks) + 1
        /\ \A j \in 1..(i - 1) : after[j] = tasks[j]
        /\ after[i] = [t EXCEPT !.completedAt = now]
        /\ after[i + 1].id \notin Ids(tasks)
        /\ after[i + 1] = [t EXCEPT !.id = after[i + 1].id, !.createdAt = now,
                                    !.completedAt = Null, !.due = nd]
        /\ \A j \in (i + 1)..Len(tasks) : after[j + 1] = tasks[j]

ToggleSpawnsOne(id) ==
    \A i \in 1..Len(tasks) :
        (tasks[i].id = id /\ notCompleted(tasks[i]) /\ tasks[i].recur \in RecurKinds)
            => SpawnedOne(toggled(id), i)

\* C1: toggleDone(id) on a not-completed task that recurs daily, weekly or monthly
\* sets that task's completedAt and adds exactly one task, which has a fresh id,
\* completedAt = null and due = nextRecurringDate(original due, or today), and is
\* otherwise a copy of the original; no other task changes.
C1_ToggleSpawnsOneSibling == \A id \in IdInputs : ToggleSpawnsOne(id)

\* C1, for the collections whose ids are distinct
C1_ToggleSpawnsOneSibling_UniqueIds ==
    UniqueIds(tasks) => \A id \in IdInputs : ToggleSpawnsOne(id)

\* C2: no two tasks of the collection have the same id, in every reachable state.
C2_IdsUnique == UniqueIds(tasks)

\* C2, for every handler but reader.onload: the handler keeps distinct ids distinct
C2_HandlersKeepIdsUnique ==
    [][(UniqueIds(tasks) /\ ~(\E data \in Payloads : readerOnload(data)))
          => UniqueIds(tasks')]_vars

\* the collection after toggleDone(id) twice in a row
toggledTwice(id) ==
    LET r1 == toggleDoneFn(tasks, id, nextId, now, tz)
    IN  toggleDoneFn(r1.list, id, r1.nid, now, tz).list

ToggleTwiceRestores(id) ==
    (\E i \in 1..Len(tasks) :
        tasks[i].id = id /\ notCompleted(tasks[i]) /\ tasks[i].recur = "none")
      => toggledTwice(id) = tasks

\* C3: for a not-completed task with recur = none, toggleDone(id) twice in a row
\* leaves the whole collection equal to what it was before the two calls.
C3_ToggleTwiceIsIdentity == \A id \in IdInputs : ToggleTwiceRestores(id)

\* C3, for the collections whose ids are distinct
C3_ToggleTwiceIsIdentity_UniqueIds ==
    UniqueIds(tasks) => \A id \in IdInputs : ToggleTwiceRestores(id)

UntoggleOnlyClears(id) ==
    \A i \in 1..Len(tasks) :
        (tasks[i].id = id /\ ~notCompleted(tasks[i]))
            => /\ Len(toggled(id)) = Len(tasks)
               /\ toggled(id)[i] = [tasks[i] EXCEPT !.completedAt = Null]
               /\ \A j \in 1..Len(tasks) : j # i => toggled(id)[j] = tasks[j]

\* C4: toggleDone(id) on a completed task only sets that task's completedAt to
\* null: it adds no task and removes none, and every other task (a sibling spawned
\* earlier included) is as before.
C4_UntoggleOnlyClears == \A id \in IdInputs : UntoggleOnlyClears(id)

\* C4, for the collections whose ids are distinct
C4_UntoggleOnlyClears_UniqueIds ==
    UniqueIds(tasks) => \A id \in IdInputs : UntoggleOnlyClears(id)

\* after is tasks plus exactly the task made from draft t: the draft's fields, a
\* fresh id, createdAt = now, completedAt = null, archived = false
AddedFrom(after, t) ==
    /\ Len(after) = Len(tasks) + 1
    /\ \E k \in 1..Len(after) :
          /\ after[k].id \notin Ids(tasks)
          /\ after[k] = Task(after[k].id, t.title, t.notes, t.project, t.labels,
                             t.priority, t.due, t.recur, now, Null, FALSE)
          /\ SubSeq(after, 1, k - 1) \o SubSeq(after, k + 1, Len(after)) = tasks

\* C5, for the drafts the add form and its Quick button build
C5_AddStoresDraft_Forms ==
    /\ \A f \in FormInputs :
          ~IsBlank(f.title)
            => AddedFrom(formSubmitFn(tasks, f, nextId, now), formDraft(f))
    /\ AddedFrom(addTaskFn(tasks, quickDraft, nextId, now), quickDraft)

AddedTasks(after) == {after[k] : k \in {j \in 1..Len(after) : after[j].id \notin Ids(tasks)}}

\* C6: adding with an empty or whitespace-only title is a no-op through every entry
\* point: the form's submit and the header Quick Add leave the collection as it was,
\* and no entry point, the form's Quick button included, adds a task whose title is
\* blank.
C6_BlankTitleIsNoOp ==
    /\ \A f \in FormInputs :
          /\ IsBlank(f.title) => formSubmitFn(tasks, f, nextId, now) = tasks
          /\ \A t \in AddedTasks(formSubmitFn(tasks, f, nextId, now)) : ~IsBlank(t.title)
    /\ \A val \in QuickAddInputs :
          /\ IsBlank(val) => quickAddFn(tasks, val, nextId, now) = tasks
          /\ \A t \in AddedTasks(quickAddFn(tasks, val, nextId, now)) : ~IsBlank(t.title)
    /\ \A t \in AddedTasks(addTaskFn(tasks, quickDraft, nextId, now)) : ~IsBlank(t.title)

\* C6 witness: a whitespace-only title was submitted to a collection that holds a
\* task, and the handler returned early
C6_Witness ==
    /\ last.op = "formSubmit"
    /\ last.out = "return"
    /\ tasks # <<>>

\* ids that no task of the collection has
AbsentIds == ((1..MaxIds) \cup ImportedIds \cup UnknownIds) \ Ids(tasks)

\* C7: toggleDone, removeTask, archiveTask and updateTask called with an id that no
\* task has leave the collection exactly as it was (same tasks, fields and order).
C7_UnknownIdIsNoOp ==
    \A id \in AbsentIds :
        /\ toggled(id) = tasks
        /\ removeTaskFn(tasks, id) = tasks
        /\ archiveTaskFn(tasks, id) = tasks
        /\ \A patch \in Patches : updateTaskFn(tasks, id, patch) = tasks

\* C7 witness: removeTask ran with an id that neither task of the collection has,
\* one of them completed
C7_Witness ==
    /\ last.op = "removeTask"
    /\ last.id \notin Ids(tasks)
    /\ Len(tasks) = 2
    /\ \E i \in 1..Len(tasks) : ~notCompleted(tasks[i])

\* a payload that is neither an object with a tasks array nor a bare array
Malformed(data) ==
    ~(data.kind = "object" /\ data.tasksIs = "array") /\ data.kind # "array"

\* C8: importing a payload that is neither an object with a tasks array nor a bare
\* array is rejected with an alert and leaves the collection exactly as it was.
C8_MalformedImportRejected ==
    \A data \in Payloads :
        Malformed(data)
          => /\ onloadFn(tasks, data) = tasks
             /\ onloadResult(data).alert \in {"Invalid file", "Invalid file format"}

\* C8 witness: {"foo": 1} or the like was rejected while the collection held tasks
C8_Witness ==
    /\ last.op = "onload"
    /\ last.out = "Invalid file format"
    /\ Len(tasks) = 2

\* C9: importing {v, tasks: S} or a bare array S replaces the collection, in the one
\* step of onload, by exactly S in S's order.
C9_ImportReplacesAll ==
    \A data \in Payloads :
        ~Malformed(data)
          => /\ onloadFn(tasks, data) = data.items
             /\ onloadResult(data).alert = ""

\* C9 witness: the bare array [I3, I1] was imported and is the collection
C9_Witness ==
    /\ last.op = "onload"
    /\ last.out = ""
    /\ tasks = <<I3, I1>>

\* the not-archived, not-completed tasks due today or before, in collection order
dueByToday(list, clock) ==
    SelectSeq(list, LAMBDA t : /\ ~t.archived
                               /\ notCompleted(t)
                               /\ t.due # Null
                               /\ t.due <= todayISOAt(clock))

BagOfSeq(sq) ==
    [x \in {sq[i] : i \in 1..Len(sq)} |-> Cardinality({i \in 1..Len(sq) : sq[i] = x})]
SameTasks(a, b) == BagOfSeq(a) = BagOfSeq(b)

\* C10, for the full component (part_000)
C10_TodayView_Full ==
    (view.type = "today" /\ q = sEmpty) => SameTasks(filtered, dueByToday(tasks, now))

\* C10: with an empty search query the today view holds exactly the tasks that are
\* not archived, not completed and due today or before today, in the full component
\* and in src/App.jsx.
C10_TodayView ==
    /\ C10_TodayView_Full
    /\ (view.type = "today" /\ q = sEmpty)
          => SameTasks(App_filtered, dueByToday(tasks, now))

-----------------------------------------------------------------------------
(* View Engine: counts, the navigation, and the collections it is explored on *)

\* counts
countsOf(all, clock, zone) ==
    [inbox |-> Len(SelectSeq(all, LAMBDA t : notCompleted(t) /\ ~t.archived)),
     today |-> Len(SelectSeq(all, LAMBDA t : notCompleted(t)
                                             /\ dueTodayOrBeforeAt(t, clock, zone))),
     upcoming |-> Len(SelectSeq(all, LAMBDA t : notCompleted(t)
                                                /\ inNextDaysAt(t.due, 7, clock, zone))),
     completed |-> Len(SelectSeq(all, LAMBDA t : ~notCompleted(t))),
     archive |-> Len(SelectSeq(all, LAMBDA t : t.archived))]
counts == countsOf(tasks, now, tz)

\* allProjects, allLabels: the distinct values (the order of the leaves is not modelled)
allProjects(all) == {all[i].project : i \in 1..Len(all)} \ {sEmpty}
allLabels(all) == UNION {{all[i].labels[k] : k \in 1..Len(all[i].labels)} : i \in 1..Len(all)}

\* The views the sidebar offers: the five NavItems (they set no key) and one NavLeaf
\* per project and per label of the collection
NavKinds == {"inbox", "today", "upcoming", "completed", "archive"}
NavViews(all) ==
    {[type |-> k, key |-> sEmpty] : k \in NavKinds}
      \cup {[type |-> "project", key |-> p] : p \in allProjects(all)}
      \cup {[type |-> "label", key |-> l] : l \in allLabels(all)}

\* setView(v) followed by the save effect
setView(v) ==
    /\ view' = v
    /\ lsView' = saveLS(lsView, v)
    /\ page' = afterSave
    /\ intervals' = afterUnmount
    /\ last' = Last("setView", Null, "")
    /\ UNCHANGED <<tasks, q, now, tz, download, lsTasks, reading, nextId, dur, mode, secs, running,
                   boundTaskId, flips>>

\* setQ(s): the search box's onChange, and its Clear button with s = ""
setQ(s) ==
    /\ q' = s
    /\ last' = Last("setQ", Null, "")
    /\ UNCHANGED <<tasks, view, now, tz, download, lsTasks, lsView, reading, nextId, dur, mode, secs,
                   running, boundTaskId, flips, page, intervals>>

MaxViewTasks == 2  \* longest collection the views are explored on

sP == <<"p">>
Feb7 == Jan31 + 7                \* 2024-02-07
Feb8 == Jan31 + 8                \* 2024-02-08

\* Tasks of a stored collection (loadLS("mydo.tasks")): due before today, today, in 7
\* and in 8 days, or never; open, completed, archived; with and without a priority
T1 == Task(201, sA, sEmpty, sP, <<sX>>, "High", Jan31, "none", StartNow - 10, Null, FALSE)
T2 == Task(202, <<"B">>, sA, sEmpty, <<>>, "Urgent", Jan31, "none", StartNow - 9, Null, FALSE)
T3 == Task(203, sB, sEmpty, sP, <<>>, "High", Jan31, "daily", StartNow - 12, Null, FALSE)
T4 == Task(204, sA, sEmpty, sEmpty, <<sB>>, Undefined, Feb7, "none", StartNow - 8, Null, FALSE)
T5 == Task(205, sX, sEmpty, sEmpty, <<>>, "Low", Feb7, "none", StartNow - 7, Null, FALSE)
T6 == Task(206, sB, sEmpty, sEmpty, <<sA>>, "Med", Jan30, "weekly", StartNow - 20, Null, FALSE)
T7 == Task(207, sA, sEmpty, sP, <<sX>>, "Med", Feb7, "none", StartNow - 6, StartNow - 2, FALSE)
T8 == Task(208, sA, sEmpty, sEmpty, <<>>, "Low", Jan31, "none", StartNow - 5, Null, TRUE)
T9 == Task(209, sX, sB, sEmpty, <<>>, "Med", Feb8, "none", StartNow - 4, Null, FALSE)
T10 == Task(210, sB, sEmpty, sEmpty, <<sX, sA>>, "Urgent", Null, "none", StartNow - 3, Null, FALSE)
ViewPool == {T1, T2, T3, T4, T5, T6, T7, T8, T9, T10}

\* the arrays of at most n distinct members of S
RECURSIVE Arrangements(_, _)
Arrangements(S, n) ==
    IF n = 0 THEN {<<>>}
    ELSE {<<>>} \cup UNION {{<<x>> \o r : r \in Arrangements(S \ {x}, n - 1)} : x \in S}

ViewCollections == Arrangements(ViewPool, MaxViewTasks)

\* What the user types into the search box
Queries == {sEmpty, <<"X">>, sA}

InitView ==
    /\ tasks \in ViewCollections
    /\ lsTasks = tasks
    /\ view = [type |-> "today", key |-> sEmpty]
    /\ lsView = view
    /\ q = sEmpty
    /\ now = StartNow
    /\ tz \in TimeZones
    /\ reading = 0
    /\ nextId = 1
    /\ dur = pomoInitial
    /\ mode = "work"
    /\ secs = pomoInitial.work
    /\ running = FALSE
    /\ boundTaskId = Null
    /\ flips = <<>>
    /\ intervals = 0
    /\ download = <<>>
    /\ page = "mounted"
    /\ last = Last("init", Null, "")

NextView ==
    \/ \E v \in NavViews(tasks) : setView(v)
    \/ \E s \in Queries : setQ(s)
    \/ ClockTick

SpecView == InitView /\ [][NextView]_vars

-----------------------------------------------------------------------------
(* Properties of the View Engine *)

\* the projection of the collection for view v and search query query
projection(v, query) == filteredOf(tasks, v, query, now, tz)
NavView(kind) == [type |-> kind, key |-> sEmpty]
Members(list) == {list[i] : i \in 1..Len(list)}

\* the not-archived, not-completed tasks due from today to today + 7 days
dueWithinWeek(list, clock) ==
    SelectSeq(list, LAMBDA t : /\ ~t.archived
                               /\ notCompleted(t)
                               /\ t.due # Null
                               /\ todayISOAt(clock) <= t.due
                               /\ t.due <= todayISOAt(clock) + 7)

\* C11: with an empty search query the upcoming view holds exactly the tasks that are
\* not archived, not completed and due on a date d with today <= d <= today + 7;
\* overdue tasks, tasks due later and tasks without a due date are not in it.
C11_UpcomingView ==
    SameTasks(projection(NavView("upcoming"), sEmpty), dueWithinWeek(tasks, now))

\* C11, on a host whose time zone is UTC
C11_UpcomingView_UTC == (tz = 0) => C11_UpcomingView

\* C12: for every search query, no view other than archive shows a task with
\* archived = true, and the archive view shows only tasks with archived = true.
C12_ArchiveExclusion ==
    \A v \in NavViews(tasks), query \in Queries :
        \A t \in Members(projection(v, query)) : t.archived <=> (v.type = "archive")

\* C12 witness: the today view is on display with a search query, and leaves out an
\* archived task due today that the query matches while it shows another task
C12_Witness ==
    /\ view.type = "today"
    /\ q # sEmpty
    /\ filtered # <<>>
    /\ \E i \in 1..Len(tasks) :
          /\ tasks[i].archived
          /\ dueTodayOrBefore(tasks[i])
          /\ matches(tasks[i], q)

\* the lower-cased query is a substring of the lower-cased, space-joined title, notes,
\* project and labels of t
QueryFound(t, query) ==
    LET fields == SelectSeq(<<t.title, t.notes, t.project>> \o t.labels,
                            LAMBDA f : f # sEmpty)
    IN  includes(toLowerCase(join(fields, <<" ">>)), toLowerCase(query))

TextFilterIn(v) ==
    \A query \in Queries \ {sEmpty} :
        /\ \A t \in Members(projection(v, query)) : QueryFound(t, query)
        /\ \A t \in Members(projection(v, sEmpty)) :
              (\E k \in 1..Len(t.labels) : toLowerCase(t.labels[k]) = toLowerCase(query))
                 => t \in Members(projection(v, query))

\* C13: for every view, archive included, and every non-empty search query, every
\* task shown has the lower-cased query as a substring of its lower-cased, space-joined
\* title, notes, project and labels; a task that matches by a label only is kept.
C13_TextFilter == \A v \in NavViews(tasks) : TextFilterIn(v)

\* C13, for the views other than archive
C13_TextFilter_ActiveViews ==
    \A v \in NavViews(tasks) : v.type # "archive" => TextFilterIn(v)

active(list) == SelectSeq(list, LAMBDA t : ~t.archived)

\* C14: with an empty search query and among the tasks that are not archived, inbox
\* shows exactly the not-completed ones, project(key) the not-completed ones whose
\* project is key, label(key) the not-completed ones whose labels contain key, and
\* completed the ones whose completedAt is set.
C14_KindFilters ==
    /\ SameTasks(projection(NavView("inbox"), sEmpty),
                 SelectSeq(active(tasks), LAMBDA t : t.completedAt = Null))
    /\ SameTasks(projection(NavView("completed"), sEmpty),
                 SelectSeq(active(tasks), LAMBDA t : t.completedAt # Null))
    /\ \A v \in NavViews(tasks) :
          /\ v.type = "project"
                => SameTasks(projection(v, sEmpty),
                             SelectSeq(active(tasks),
                                       LAMBDA t : t.completedAt = Null /\ t.project = v.key))
          /\ v.type = "label"
                => SameTasks(projection(v, sEmpty),
                             SelectSeq(active(tasks),
                                       LAMBDA t : t.completedAt = Null
                                                  /\ v.key \in Members(t.labels)))

\* C14 witness: a project view is on display; it shows a task of the project and
\* leaves out a completed one of the same project
C14_Witness ==
    /\ view.type = "project"
    /\ q = sEmpty
    /\ filtered # <<>>
    /\ \E i \in 1..Len(tasks) :
          tasks[i].project = view.key /\ tasks[i].completedAt # Null /\ ~tasks[i].archived

\* priority rank: Urgent > High > Med > Low, unset counting as Low
rankOf(p) ==
    CASE p = "Urgent" -> 4 [] p = "High" -> 3 [] p = "Med" -> 2 [] p = "Low" -> 1
      [] p = Undefined -> 1

\* a goes before b: earlier due date, a missing one being later than every date; then
\* higher priority; then earlier creation
InOrder(a, b) ==
    IF a.due # b.due
    THEN b.due = Null \/ (a.due # Null /\ a.due < b.due)
    ELSE IF rankOf(a.priority) # rankOf(b.priority)
    THEN rankOf(a.priority) > rankOf(b.priority)
    ELSE a.createdAt <= b.createdAt

C16_CountsMatchViews ==
    \A k \in NavKinds : counts[k] = Len(projection(NavView(k), sEmpty))

\* C16, for the inbox and archive badges, and for all five when no task is archived
C16_CountsMatchViews_NoArchived ==
    /\ \A k \in {"inbox", "archive"} : counts[k] = Len(projection(NavView(k), sEmpty))
    /\ (\A i \in 1..Len(tasks) : ~tasks[i].archived) => C16_CountsMatchViews

-----------------------------------------------------------------------------
(* Focus Timer (usePomodoro).  secs changes in two callbacks: the interval      *)
(* callback decrements it, and the zero-crossing effect, which React runs after *)
(* the render that shows secs = 0 and with the mode and dur of that render,     *)
(* queues the flip.  The flip is rendered before the next interval callback;    *)
(* the click handlers are separate events and may come first.                   *)

MaxFlips == 2      \* zero-crossing flips queued and not rendered yet

\* the state usePomodoro holds
pomo == [dur |-> dur, mode |-> mode, secs |-> secs, running |-> running,
         boundTaskId |-> boundTaskId]

\* (m) => (m === "work" ? "break" : "work")
flipMode(m) == IF m = "work" THEN "break" ELSE "work"

\* const next = mode === "work" ? dur.break : dur.work
nextSecs(m, d) == IF m = "work" THEN d.break ELSE d.work

\* (s) => (s > 0 ? s - 1 : 0)
tickFn(s) == IF s > 0 THEN s - 1 ELSE 0

\* setRunning((r) => !r)
startPauseFn(st) == [st EXCEPT !.running = ~st.running]

\* reset that leaves running alone
resetFn_KeepsRunning(st) == [st EXCEPT !.mode = "work", !.secs = st.dur.work]

\* reset
resetFn(st) == [st EXCEPT !.mode = "work", !.secs = st.dur.work, !.running = FALSE]

\* setDur that also restarts the phase in progress with the new work duration
setDurFn_RestartsPhase(st, work, brk) ==
    [st EXCEPT !.dur = [work |-> work * 60, break |-> brk * 60], !.secs = work * 60]

\* pomo.setDur({ work: work * 60, break: brk * 60 })
setDurFn(st, work, brk) == [st EXCEPT !.dur = [work |-> work * 60, break |-> brk * 60]]

\* bind: (id) => setBoundTaskId(id)
bindFn(st, id) == [st EXCEPT !.boundTaskId = id]

\* the queued setMode flips and setSecs values, applied in order by one render
zeroCrossingFn(st, queued) ==
    [st EXCEPT !.mode = IF Len(queued) % 2 = 1 THEN flipMode(st.mode) ELSE st.mode,
               !.secs = queued[Len(queued)]]

MaxIntervals == 2  \* setInterval registrations alive at once before the model stops

\* the tick effect with a cleanup that clears nothing
tickEffect_NoCleanup(n, was, is) ==
    IF was = is THEN n ELSE n + (IF is THEN 1 ELSE 0)

\* The tick effect has the dependency [running]: when running changed, the cleanup of
\* its last run clears the interval that run registered (it registered one when
\* running was true), and the new run registers one when running is true.
\* n counts the live registrations.
tickEffect(n, was, is) ==
    IF was = is THEN n
    ELSE (IF was THEN n - 1 ELSE n) + (IF is THEN 1 ELSE 0)

\* A render commits st.  The zero-crossing effect has the dependencies [secs, mode,
\* dur]: it runs when one of them changed, and when secs === 0 it queues its flip.
Render(st, queued) ==
    /\ dur' = st.dur
    /\ mode' = st.mode
    /\ secs' = st.secs
    /\ running' = st.running
    /\ boundTaskId' = st.boundTaskId
    /\ flips' = IF st.secs = 0 /\ <<st.secs, st.mode, st.dur>> # <<secs, mode, dur>>
                THEN Append(queued, nextSecs(st.mode, st.dur))
                ELSE queued
    /\ Len(flips') <= MaxFlips
    /\ intervals' = tickEffect(intervals, running, st.running)
    /\ intervals' <= MaxIntervals
    /\ UNCHANGED <<tasks, view, q, now, tz, download, lsTasks, lsView, reading, nextId, page>>

\* Header: the start/pause button
startPause ==
    /\ last' = Last("startPause", Null, "")
    /\ Render(startPauseFn(pomo), flips)

\* the callback of a live interval
tick ==
    /\ intervals > 0
    /\ flips = <<>>
    /\ last' = Last("tick", Null, "")
    /\ Render([pomo EXCEPT !.secs = tickFn(secs)], flips)

\* the render of what the zero-crossing effect queued
zeroCrossing ==
    /\ flips # <<>>
    /\ last' = Last("zeroCrossing", Null, "")
    /\ Render(zeroCrossingFn(pomo, flips), <<>>)

\* Header: the Reset button
reset ==
    /\ last' = Last("reset", Null, "")
    /\ Render(resetFn(pomo), flips)

\* SettingsPane: Save Timer, with the minutes typed into the two number inputs
SaveInputs == { [work |-> 1, brk |-> 1], [work |-> 1, brk |-> -1],
                [work |-> 0, brk |-> 0] }
saveTimer(f) ==
    /\ last' = Last("saveTimer", Null, "")
    /\ Render(setDurFn(pomo, f.work, f.brk), flips)

\* TaskRow: the timer button of a task on display
bind(id) ==
    /\ last' = Last("bind", id, "")
    /\ Render(bindFn(pomo, id), flips)

InitTimer ==
    /\ tasks = <<T1>>
    /\ lsTasks = tasks
    /\ view = [type |-> "today", key |-> sEmpty]
    /\ lsView = view
    /\ q = sEmpty
    /\ now = StartNow
    /\ tz = 0
    /\ reading = 0
    /\ nextId = 1
    /\ dur = pomoInitial
    /\ mode = "work"
    /\ secs = pomoInitial.work
    /\ running = FALSE
    /\ boundTaskId = Null
    /\ flips = <<>>
    /\ intervals = 0
    /\ download = <<>>
    /\ page = "mounted"
    /\ last = Last("init", Null, "")

NextTimer ==
    \/ startPause
    \/ tick
    \/ zeroCrossing
    \/ reset
    \/ \E f \in SaveInputs : saveTimer(f)
    \/ \E id \in Ids(tasks) : bind(id)

SpecTimer == InitTimer /\ [][NextTimer]_vars

-----------------------------------------------------------------------------
(* Properties of the Focus Timer *)

\* the duration configured for mode m
durOf(d, m) == IF m = "work" THEN d.work ELSE d.break

\* C17: one tick of a running timer with secs = 1 leaves the timer in the opposite
\* mode with secs = that mode's configured duration and running still true: the tick
\* itself does the flip, so that no state with secs = 0 is left for another event.
C17_TickFlipsAtZero ==
    [][(running /\ secs = 1 /\ tick)
          => (mode' = flipMode(mode) /\ secs' = durOf(dur', mode') /\ running')]_vars

\* C17, in two steps: the tick leaves secs = 0 with the mode as it was, and the flip
\* that follows it directly gives the opposite mode and its configured duration
C17_TickFlipsAtZero_TwoSteps ==
    [][/\ (running /\ secs = 1 /\ tick) => (secs' = 0 /\ mode' = mode /\ flips' # <<>>)
       /\ (last.op = "tick" /\ secs = 0 /\ zeroCrossing)
             => (mode' = flipMode(mode) /\ secs' = durOf(dur', mode')
                 /\ running' = running)]_vars

\* C18: while running is false no time elapses: with positive configured durations,
\* neither a tick nor the processing of one changes secs or mode of a paused timer,
\* and start/pause changes running only.
C18_PausedTimeStands ==
    [][/\ (~running /\ dur.work > 0 /\ dur.break > 0 /\ (tick \/ zeroCrossing))
             => UNCHANGED <<secs, mode>>
       /\ startPause => UNCHANGED <<secs, mode, dur, boundTaskId>>]_vars

\* C18, for a timer paused while no flip is queued: no tick reaches it, and
\* start/pause changes running only
C18_PausedTimeStands_NoFlipQueued ==
    [][/\ (~running /\ flips = <<>> /\ ~reset) => UNCHANGED <<secs, mode>>
       /\ startPause => UNCHANGED <<secs, mode, dur, boundTaskId>>]_vars

\* C19: in every reachable timer state secs is a non-negative integer and mode is work
\* or break.
C19_SecsNonNegative == secs \in Nat /\ mode \in {"work", "break"}

\* C19, from the states whose configured durations and queued flips are not negative:
\* no step makes secs negative; and mode is work or break throughout
C19_SecsNonNegative_SaneDurations ==
    [][/\ (secs >= 0 /\ dur.work >= 0 /\ dur.break >= 0
              /\ \A i \in 1..Len(flips) : flips[i] >= 0)
             => secs' \in Nat
       /\ mode' \in {"work", "break"}]_vars

-----------------------------------------------------------------------------
(* The page as a whole: the task store, the view selector, the timer's binding *)
(* and a localStorage that may start to reject writes                          *)

\* the tree is there to handle events
Mounted == page # "unmounted"

\* localStorage.setItem starts to throw (quota exceeded, storage disabled)
storageDenies ==
    /\ page = "mounted"
    /\ page' = "denied"
    /\ UNCHANGED <<tasks, view, q, now, tz, download, lsTasks, lsView, reading, nextId, dur, mode,
                   secs, running, boundTaskId, flips, intervals, last>>

\* the views the sidebar is clicked through here
AppViews == {[type |-> "inbox", key |-> sEmpty], [type |-> "today", key |-> sEmpty]}

InitApp ==
    /\ Init
    /\ tz = 0

NextApp ==
    \/ Mounted /\ AddTaskFormQuick
    \/ \E val \in QuickAddInputs : Mounted /\ QuickAdd(val)
    \/ \E id \in IdInputs : Mounted /\ toggleDone(id)
    \/ \E id \in IdInputs : Mounted /\ removeTask(id)
    \/ \E id \in IdInputs : Mounted /\ archiveTask(id)
    \/ \E id \in IdInputs, patch \in Patches : Mounted /\ updateTask(id, patch)
    \/ Mounted /\ bulkCompleteToday
    \/ Mounted /\ clearAll
    \/ Mounted /\ importJSON
    \/ \E data \in Payloads : Mounted /\ readerOnload(data)
    \/ \E id \in Ids(tasks) : Mounted /\ bind(id)
    \/ Mounted /\ startPause
    \/ \E v \in AppViews : Mounted /\ setView(v)
    \/ storageDenies

SpecApp == InitApp /\ [][NextApp]_vars


-----------------------------------------------------------------------------
(* Properties of the page as a whole *)

\* a step of a Task Store operation other than the header's Quick Add
StoreHandler ==
    \/ AddTaskFormQuick
    \/ \E id \in IdInputs : toggleDone(id) \/ removeTask(id) \/ archiveTask(id)
    \/ \E id \in IdInputs, patch \in Patches : updateTask(id, patch)
    \/ bulkCompleteToday
    \/ clearAll
    \/ importJSON
    \/ \E data \in Payloads : readerOnload(data)

\* bind(id) changes boundTaskId and nothing else of the timer or the store
BindOnlyBinds ==
    \A id \in Ids(tasks) :
        bind(id) => /\ boundTaskId' = id
                    /\ UNCHANGED <<tasks, lsTasks, dur, mode, secs, running>>

\* C22: the binding is a weak reference: bind(id) changes boundTaskId only and no
\* task, and removing the bound task, or any other Task Store operation, leaves
\* boundTaskId as it was, so that it may name a task no longer in the collection.
C22_BindingIsWeak ==
    [][/\ BindOnlyBinds
       /\ (StoreHandler \/ \E val \in QuickAddInputs : QuickAdd(val))
             => boundTaskId' = boundTaskId]_vars

\* C22 for every Task Store operation but the header's Quick Add
C22_BindingIsWeak_InPage ==
    [][/\ BindOnlyBinds
       /\ StoreHandler => boundTaskId' = boundTaskId]_vars

\* the bound task has been removed and the binding still names it
C22_Witness ==
    /\ last.op = "removeTask"
    /\ boundTaskId # Null
    /\ boundTaskId = last.id
    /\ boundTaskId \notin Ids(tasks)


-----------------------------------------------------------------------------
(* Properties of the Task Store's other operations *)

\* t has a due date of today or earlier, today being the date of todayISO()
dueNow(t) == t.due # Null /\ t.due <= todayISO

\* C23: bulkCompleteToday() sets completedAt to now on every task that has no
\* completedAt and is due today or earlier, changes no other task and no other field,
\* and spawns no sibling, not even for a recurring task: the collection is as long
\* after it as before.
C23_BulkCompleteToday ==
    LET after == bulkCompleteTodayFn(tasks, now, tz)
    IN  /\ Len(after) = Len(tasks)
        /\ \A i \in 1..Len(tasks) :
              after[i] = IF notCompleted(tasks[i]) /\ dueNow(tasks[i])
                         THEN [tasks[i] EXCEPT !.completedAt = now]
                         ELSE tasks[i]

\* bulkCompleteToday() has run on a recurring task that was due, next to an open task
\* due after today
C23_Witness ==
    /\ last.op = "bulkCompleteToday"
    /\ Len(tasks) = 2
    /\ \E i, j \in 1..Len(tasks) :
          /\ recurs(tasks[i]) /\ dueNow(tasks[i]) /\ tasks[i].completedAt = now
          /\ notCompleted(tasks[j]) /\ tasks[j].due # Null /\ tasks[j].due > todayISO


\* list without its element at position i
without(list, i) == SubSeq(list, 1, i - 1) \o SubSeq(list, i + 1, Len(list))

ArchiveOnlyArchives(id) ==
    \A i \in 1..Len(tasks) :
        tasks[i].id = id
          => /\ Len(archiveTaskFn(tasks, id)) = Len(tasks)
             /\ archiveTaskFn(tasks, id)[i] = [tasks[i] EXCEPT !.archived = TRUE]
             /\ \A j \in 1..Len(tasks) : j # i => archiveTaskFn(tasks, id)[j] = tasks[j]

\* C24: archiveTask(id) sets archived = true on the task with that id and changes
\* nothing else: that task's completedAt and other fields and every other task are as
\* before, and the collection is as long as before.
C24_ArchiveOnlyArchives == \A id \in IdInputs : ArchiveOnlyArchives(id)

\* C24, for the collections whose ids are distinct
C24_ArchiveOnlyArchives_UniqueIds ==
    UniqueIds(tasks) => \A id \in IdInputs : ArchiveOnlyArchives(id)

RemoveOnlyRemoves(id) ==
    \A i \in 1..Len(tasks) :
        tasks[i].id = id => removeTaskFn(tasks, id) = without(tasks, i)

\* C25: removeTask(id) deletes the task with that id and leaves every other task as
\* it was and in the same relative order; a sibling spawned earlier from the removed
\* task stays in the collection.
C25_RemoveOnlyRemoves == \A id \in IdInputs : RemoveOnlyRemoves(id)

\* C25, for the collections whose ids are distinct
C25_RemoveOnlyRemoves_UniqueIds ==
    UniqueIds(tasks) => \A id \in IdInputs : RemoveOnlyRemoves(id)

\* Patches the edit operation is tried with: the Reset button's, one of two content
\* fields, one of the identity fields
EditPatches ==
    Patches \cup { [title |-> sB, priority |-> "High"],
                   [id |-> 999, createdAt |-> StartNow - 1] }

\* t with exactly the fields of patch replaced
patched(t, after, patch) ==
    /\ DOMAIN after = DOMAIN t \cup DOMAIN patch
    /\ \A f \in DOMAIN patch : after[f] = patch[f]
    /\ \A f \in DOMAIN t \ DOMAIN patch : after[f] = t[f]

EditOnlyPatches(id, patch) ==
    \A i \in 1..Len(tasks) :
        tasks[i].id = id
          => /\ Len(updateTaskFn(tasks, id, patch)) = Len(tasks)
             /\ patched(tasks[i], updateTaskFn(tasks, id, patch)[i], patch)
             /\ patch = ResetPatch
                  => /\ ~updateTaskFn(tasks, id, patch)[i].archived
                     /\ notCompleted(updateTaskFn(tasks, id, patch)[i])
             /\ \A j \in 1..Len(tasks) : j # i => updateTaskFn(tasks, id, patch)[j] = tasks[j]

\* C26: updateTask(id, patch) replaces exactly the fields present in patch on the task
\* with that id and leaves that task's other fields and all other tasks as they were;
\* with the Reset button's patch the task ends neither archived nor completed, and no
\* task is added or removed.
C26_EditOnlyPatches ==
    \A id \in IdInputs, patch \in EditPatches : EditOnlyPatches(id, patch)

\* C26, for the collections whose ids are distinct
C26_EditOnlyPatches_UniqueIds ==
    UniqueIds(tasks) => \A id \in IdInputs, patch \in EditPatches : EditOnlyPatches(id, patch)

\* the id and createdAt of each task of list, in order
identities(list) == [i \in 1..Len(list) |-> <<list[i].id, list[i].createdAt>>]

\* the tasks of after that were in the collection before (a spawned sibling has a
\* fresh id)
kept(after) == SelectSeq(after, LAMBDA t : t.id # nextId)

\* toggleDone, archiveTask and bulkCompleteToday keep every task's id and createdAt
OthersKeepIdentity ==
    /\ \A id \in IdInputs : identities(kept(toggled(id))) = identities(tasks)
    /\ \A id \in IdInputs : identities(archiveTaskFn(tasks, id)) = identities(tasks)
    /\ identities(bulkCompleteTodayFn(tasks, now, tz)) = identities(tasks)

C27_IdentityImmutable_ResetPatch ==
    /\ OthersKeepIdentity
    /\ \A id \in IdInputs, patch \in Patches :
          identities(updateTaskFn(tasks, id, patch)) = identities(tasks)


C29_WriteFailureSurvived == Mounted

\* C29, for the one write made in an event handler, the header Quick Add's: its
\* throw ends the handler before the reload and leaves the page as it was
C29_WriteFailureSurvived_QuickAdd ==
    [][\A val \in QuickAddInputs :
          (page = "denied" /\ QuickAdd(val))
             => (page' = "denied" /\ UNCHANGED <<tasks, lsTasks, view, boundTaskId>>)]_vars


-----------------------------------------------------------------------------
(* Properties of the Recurrence Engine *)

Feb1 == StartOfMonth(1)          \* 2024-02-01
Mar2 == StartOfMonth(2) + 1      \* 2024-03-02

\* Base dates the engine is tried with
RecurBases == {Jan30, Jan31, Feb1, Feb7}

\* the next occurrence as a function of the base date and the recurrence alone
nextOccurrence(date, recur) ==
    IF recur = "daily" THEN date + 1
    ELSE IF recur = "weekly" THEN date + 7
    ELSE IF recur = "monthly"
    THEN StartOfMonth(MonthOf(date) + 1) + DayOfMonth(date) - 1
    ELSE Null

NextOccurrenceIn(zone) ==
    /\ \A date \in RecurBases, recur \in RecurKinds \cup {"none"} :
          nextRecurringDateIn(date, recur, now, zone) = nextOccurrence(date, recur)
    /\ nextRecurringDateIn(Jan31, "monthly", now, zone) = Mar2

\* C30: nextRecurringDate(date, recur) depends on its two arguments only: date + 1 day
\* for daily, date + 7 days for weekly, no date for none, and for monthly the same
\* day-of-month one month later, a day-of-month the month lacks running over into
\* the month after (2024-01-31 gives 2024-03-02).
C30_NextOccurrence == NextOccurrenceIn(tz)

\* C30 on a host at UTC or east of it
C30_NextOccurrence_UTC == tz >= 0 => NextOccurrenceIn(tz)


-----------------------------------------------------------------------------
(* The Focus Timer and the Task Store side by side *)

\* a step of one of the timer's operations
TimerHandler ==
    \/ startPause
    \/ tick
    \/ zeroCrossing
    \/ reset
    \/ \E f \in SaveInputs : saveTimer(f)
    \/ \E id \in Ids(tasks) : bind(id)

\* C31: the Focus Timer and the Task Store do not affect each other: no task
\* operation, the header's Quick Add and import included, changes mode, secs, running,
\* the durations or boundTaskId, and no timer operation changes the collection.
C31_TimerStoreIndependent ==
    [][/\ (StoreHandler \/ \E val \in QuickAddInputs : QuickAdd(val))
             => UNCHANGED <<dur, mode, secs, running, boundTaskId>>
       /\ TimerHandler => UNCHANGED <<tasks, lsTasks>>]_vars

\* C31 for every task operation but the header's Quick Add
C31_TimerStoreIndependent_InPage ==
    [][/\ StoreHandler => UNCHANGED <<dur, mode, secs, running, boundTaskId>>
       /\ TimerHandler => UNCHANGED <<tasks, lsTasks>>]_vars

\* C31, the timer's side, over every state of the timer
C31_TimerLeavesStore ==
    [][TimerHandler => UNCHANGED <<tasks, lsTasks>>]_vars


-----------------------------------------------------------------------------
(* Properties of the stored labels *)

\* no element of sq occurs twice
NoDuplicate(sq) == \A i, j \in 1..Len(sq) : sq[i] = sq[j] => i = j

\* the label lists found in a collection
labelLists(list) == {list[i].labels : i \in 1..Len(list)}

\* C32: the labels of every stored task form a set: a draft that names a label more
\* than once is stored with that label once, and no operation produces a task whose
\* labels hold a duplicate.
C32_LabelsAreSets == \A i \in 1..Len(tasks) : NoDuplicate(tasks[i].labels)

\* C32, for the operations on tasks already stored: toggleDone (a spawned sibling
\* included), archiveTask, updateTask with the Reset patch, removeTask and
\* bulkCompleteToday hand on the label lists they find
C32_LabelsAreSets_StoredTasks ==
    /\ \A id \in IdInputs :
          /\ labelLists(toggled(id)) \subseteq labelLists(tasks)
          /\ labelLists(archiveTaskFn(tasks, id)) \subseteq labelLists(tasks)
          /\ labelLists(removeTaskFn(tasks, id)) \subseteq labelLists(tasks)
          /\ \A patch \in Patches :
                labelLists(updateTaskFn(tasks, id, patch)) \subseteq labelLists(tasks)
    /\ labelLists(bulkCompleteTodayFn(tasks, now, tz)) \subseteq labelLists(tasks)


-----------------------------------------------------------------------------
(* Grouping by due date *)

\* The key of a task's bucket: new Date(t.due).toDateString(), the local calendar day
\* of midnight UTC of the due date, or "No due date" (written Null here)
dueKeyIn(t, zone) == IF t.due = Null THEN Null ELSE localDay(DateParse(t.due), zone)

\* groupBy(arr, fn): the buckets [key, items] in the order Object.entries lists them,
\* which is the order in which the keys first occur in arr
RECURSIVE groupByAcc(_, _, _)
groupByAcc(arr, zone, acc) ==
    IF arr = <<>> THEN acc
    ELSE LET x == Head(arr)
             k == dueKeyIn(x, zone)
         IN  IF \E n \in 1..Len(acc) : acc[n].key = k
             THEN groupByAcc(Tail(arr), zone,
                     [n \in 1..Len(acc) |->
                         IF acc[n].key = k
                         THEN [acc[n] EXCEPT !.items = Append(acc[n].items, x)]
                         ELSE acc[n]])
             ELSE groupByAcc(Tail(arr), zone, Append(acc, [key |-> k, items |-> <<x>>]))

groupBy(arr, zone) == groupByAcc(arr, zone, <<>>)

\* The comparator of the bucket sort:
\* (ak === "No due date") - (bk === "No due date") || new Date(ak) - new Date(bk);
\* new Date of a toDateString() text is local midnight of that day, and the NaN of two
\* "No due date" keys counts as 0
compareBuckets(a, b, zone) ==
    IF (a.key = Null) # (b.key = Null)
    THEN (IF a.key = Null THEN 1 ELSE -1)
    ELSE IF a.key = Null THEN 0
    ELSE fromLocal(a.key, 0, zone) - fromLocal(b.key, 0, zone)

RECURSIVE insertBucket(_, _, _)
insertBucket(sorted, x, zone) ==
    IF sorted = <<>> THEN <<x>>
    ELSE IF compareBuckets(Head(sorted), x, zone) > 0 THEN <<x>> \o sorted
    ELSE <<Head(sorted)>> \o insertBucket(Tail(sorted), x, zone)

RECURSIVE sortBuckets(_, _)
sortBuckets(list, zone) ==
    IF list = <<>> THEN <<>>
    ELSE insertBucket(sortBuckets(SubSeq(list, 1, Len(list) - 1), zone), list[Len(list)],
                      zone)

\* The buckets in display order
groupedOf(list, zone) == sortBuckets(groupBy(list, zone), zone)
groupedByDue == groupedOf(filtered, tz)

-----------------------------------------------------------------------------
(* Properties of the grouping *)

\* the tasks of the buckets read in display order
RECURSIVE flatten(_)
flatten(buckets) ==
    IF buckets = <<>> THEN <<>> ELSE Head(buckets).items \o flatten(Tail(buckets))

\* each bucket is not empty, no key is used twice, the keys go up with "No due date"
\* last, and the buckets read in order are the sorted projection
GroupingKeepsOrder ==
    /\ \A n \in 1..Len(groupedByDue) : groupedByDue[n].items # <<>>
    /\ \A m, n \in 1..Len(groupedByDue) :
          m < n => /\ groupedByDue[m].key # Null
                   /\ groupedByDue[n].key = Null \/ groupedByDue[m].key < groupedByDue[n].key
    /\ flatten(groupedByDue) = filtered

\* every bucket is the one of its tasks' due day
BucketIsDueDay ==
    \A n \in 1..Len(groupedByDue) :
        \A k \in 1..Len(groupedByDue[n].items) :
            groupedByDue[n].key = groupedByDue[n].items[k].due

\* C33: the grouping puts each projected task in exactly one bucket, that of its due
\* calendar day or "No due date", orders the buckets by day with "No due date" last,
\* and keeps the sort order inside each bucket: the buckets read in display order are
\* the sorted projection.
C33_GroupingByDueDay == GroupingKeepsOrder /\ BucketIsDueDay

\* C33 with the bucket's day required to be the due day only at UTC and east of it
C33_GroupingByDueDay_UTC == GroupingKeepsOrder /\ (tz >= 0 => BucketIsDueDay)

\* two buckets are on display, one of them "No due date"
C33_Witness ==
    /\ last.op = "setView"
    /\ Len(groupedByDue) = 2
    /\ groupedByDue[2].key = Null


-----------------------------------------------------------------------------
(* The Focus Timer with its schedule: while the interval exists it keeps calling *)
(* back, and React renders every state update that an effect queued             *)

\* Minutes typed into the settings pane when only positive durations are saved
PositiveSaveInputs == { [work |-> 1, brk |-> 1], [work |-> 2, brk |-> 1] }

NextTimerLive ==
    \/ startPause
    \/ tick
    \/ zeroCrossing
    \/ reset
    \/ \E f \in PositiveSaveInputs : saveTimer(f)
    \/ \E id \in Ids(tasks) : bind(id)

SpecTimerLive ==
    /\ InitTimer
    /\ [][NextTimerLive]_vars
    /\ WF_vars(tick)
    /\ WF_vars(zeroCrossing)

PositiveDurations == dur.work > 0 /\ dur.break > 0

\* if from some moment on the timer stays running with positive durations, it is in
\* work mode again and again and in break mode again and again
ModeChangesForever ==
    (<>[](running /\ PositiveDurations)) => ([]<>(mode = "work") /\ []<>(mode = "break"))

\* the step that ends a phase starts the other one, with that mode's configured
\* duration and running still true
PhaseEndStartsOther ==
    (secs = 0 /\ running /\ PositiveDurations /\ zeroCrossing)
       => (mode' = flipMode(mode) /\ secs' = durOf(dur', mode') /\ running')

\* C34: while the timer stays running and ticks keep coming, with positive durations,
\* the mode changes infinitely often and strictly alternates work, break, work, ...:
\* every phase ends, the next one starts with running still true, and no phase is
\* skipped or repeated.
C34_PhasesAlternate ==
    /\ [][PhaseEndStartsOther]_vars
    /\ ModeChangesForever

\* C34, as long as no more than the one flip of the phase's end is ever queued
C34_PhasesAlternate_OneFlip ==
    /\ [][Len(flips) = 1 => PhaseEndStartsOther]_vars
    /\ (<>[](running /\ PositiveDurations /\ Len(flips) <= 1))
          => ([]<>(mode = "work") /\ []<>(mode = "break"))


-----------------------------------------------------------------------------
(* Properties of the tick source *)

\* C35: at every moment at most one interval is registered for the timer, and none
\* while running is false: each pause clears the interval the start before it
\* registered, so that no sequence of starts and pauses makes one elapsed second
\* decrement secs more than once.
C35_OneTickSource == intervals = (IF running THEN 1 ELSE 0)

\* the timer was paused after it had ticked: the interval that ticked is cleared
C35_Witness ==
    /\ last.op = "startPause"
    /\ ~running
    /\ intervals = 0
    /\ secs > 0
    /\ secs < durOf(dur, mode)


-----------------------------------------------------------------------------
(* The Focus Timer with durations of zero minutes saved: React renders every  *)
(* state update that an effect queued                                          *)

\* Minutes typed into the settings pane, zero included
ZeroSaveInputs == { [work |-> 1, brk |-> 1], [work |-> 0, brk |-> 1],
                    [work |-> 0, brk |-> 0] }

NextTimerZero ==
    \/ startPause
    \/ tick
    \/ zeroCrossing
    \/ reset
    \/ \E f \in ZeroSaveInputs : saveTimer(f)
    \/ \E id \in Ids(tasks) : bind(id)

SpecTimerZero ==
    /\ InitTimer
    /\ [][NextTimerZero]_vars
    /\ WF_vars(zeroCrossing)

\* the timer shows a positive number of seconds and no flip is queued
Settled == secs > 0 /\ flips = <<>>

\* from some moment on the buttons are left alone: only ticks and flips happen
LeftAlone == <>[](last.op \in {"tick", "zeroCrossing"})

\* C36: zero-crossing processing always settles: whatever durations are saved, a
\* duration of 0 included, once secs is 0 the timer comes after finitely many flips
\* to a state with secs > 0 in which no flip is queued.
C36_ZeroCrossingSettles == LeftAlone => ((secs = 0) ~> Settled)

\* C36 when only positive durations are saved
C36_ZeroCrossingSettles_Positive == (secs = 0) ~> Settled


-----------------------------------------------------------------------------
(* Properties relating the operations to the views *)

\* positions of the collection whose completedAt bulkCompleteToday() changes
bulkChanged ==
    LET after == bulkCompleteTodayFn(tasks, now, tz)
    IN  {i \in 1..Len(tasks) : after[i].completedAt # tasks[i].completedAt}

\* positions of the collection whose task the today view shows with an empty query
todayShown ==
    {i \in 1..Len(tasks) : tasks[i] \in Members(projection(NavView("today"), sEmpty))}

\* C37: bulkCompleteToday() completes exactly the tasks that the today view with an
\* empty search query shows just before the call: the positions whose completedAt
\* changes are the positions of that projection, whatever query is active.
C37_BulkCompletesTodayView == bulkChanged = todayShown

\* C37 for the tasks that are not archived, and every task the view shows is completed
C37_BulkCompletesTodayView_Active ==
    /\ {i \in bulkChanged : ~tasks[i].archived} = todayShown
    /\ todayShown \subseteq bulkChanged


\* how many positions of list hold t
occurrences(list, t) == Cardinality({i \in 1..Len(list) : list[i] = t})

\* the inbox, completed and archive views with an empty query show, between them,
\* every task as often as the collection holds it, and no task in two of them
ThreeWayPartition ==
    LET inbox == projection(NavView("inbox"), sEmpty)
        completed == projection(NavView("completed"), sEmpty)
        archive == projection(NavView("archive"), sEmpty)
    IN  /\ Members(inbox) \cap Members(completed) = {}
        /\ Members(inbox) \cap Members(archive) = {}
        /\ Members(completed) \cap Members(archive) = {}
        /\ Members(inbox) \cup Members(completed) \cup Members(archive) = Members(tasks)
        /\ \A t \in Members(tasks) :
              occurrences(inbox, t) + occurrences(completed, t) + occurrences(archive, t)
                 = occurrences(tasks, t)

\* every other view with an empty query shows inbox tasks only
InboxSubsets ==
    \A v \in NavViews(tasks) :
        v.type \in {"today", "upcoming", "project", "label"}
           => \A t \in Members(projection(v, sEmpty)) :
                 occurrences(projection(v, sEmpty), t)
                    <= occurrences(projection(NavView("inbox"), sEmpty), t)

\* C38: for every collection, with an empty search query the inbox, completed and
\* archive projections are pairwise disjoint and together contain every task of the
\* collection exactly once, and the today, upcoming, project and label projections
\* are each a subset of the inbox projection.
C38_ViewsPartition == ThreeWayPartition /\ InboxSubsets

\* C38 witness: a label view is on display with an empty query and shows a task, and
\* the collection also holds a task that is archived or completed
C38_Witness ==
    /\ view.type = "label"
    /\ q = sEmpty
    /\ filtered # <<>>
    /\ \E i \in 1..Len(tasks) : tasks[i].archived \/ ~notCompleted(tasks[i])


-----------------------------------------------------------------------------
(* Export and import *)

\* the members the model holds as text and that a task may lack
TextMembers == {"priority", "recur"}

\* t[f] is undefined
isUndefined(t, f) == f \in TextMembers /\ t[f] = Undefined

\* JSON.stringify of a task: an object with the task's members, those whose value is
\* undefined left out
stringifyTask(t) == [f \in {g \in DOMAIN t : ~isUndefined(t, g)} |-> t[f]]

\* JSON.parse of a task object: the members the text holds; a text member the object
\* lacks reads undefined
parseTask(o) ==
    [f \in DOMAIN o \cup TextMembers |-> IF f \in DOMAIN o THEN o[f] ELSE Undefined]

\* an export of what is on display: JSON.stringify({ v: 1, tasks: filtered })
exportDocument_Shown(list) ==
    LET shown == SelectSeq(list, LAMBDA t : ~t.archived)
    IN  [v |-> 1, tasks |-> [i \in 1..Len(shown) |-> stringifyTask(shown[i])]]

\* the document exportJSON saves: JSON.stringify({ v: 1, tasks }, null, 2)
exportDocument(list) ==
    [v |-> 1, tasks |-> [i \in 1..Len(list) |-> stringifyTask(list[i])]]

\* JSON.parse(reader.result) of an exported document, as reader.onload sees it
parseDocument(doc) ==
    [kind |-> "object", tasksIs |-> "array", v |-> doc.v,
     items |-> [i \in 1..Len(doc.tasks) |-> parseTask(doc.tasks[i])]]

\* exportJSON(): the browser saves the document
exportJSON ==
    /\ download' = <<exportDocument(tasks)>>
    /\ last' = Last("exportJSON", Null, "")
    /\ UNCHANGED <<tasks, lsTasks, nextId, view, q, now, tz, lsView, reading, dur, mode,
                   secs, running, boundTaskId, flips, intervals, page>>

\* reader.onload of a read of the saved document
importDownload ==
    /\ download # <<>>
    /\ readerOnload(parseDocument(download[1]))

InitExport == InitView /\ tz = 0

NextExport ==
    \/ exportJSON
    \/ importJSON
    \/ importDownload
    \/ \E id \in Ids(tasks) : removeTask(id)
    \/ \E id \in Ids(tasks) : archiveTask(id)
    \/ \E id \in Ids(tasks) : toggleDone(id)
    \/ clearAll

SpecExport == InitExport /\ [][NextExport]_vars

\* C39: export followed by import of the exported document is the identity on the
\* task collection: the document holds v = 1 and the full task sequence, and importing
\* it, over whatever collection, yields a collection equal to the one exported, task
\* for task and in the same order.
C39_ExportImportIdentity ==
    LET doc == exportDocument(tasks)
        data == parseDocument(doc)
    IN  /\ doc.v = 1
        /\ Len(doc.tasks) = Len(tasks)
        /\ data.items = tasks
        /\ onloadResult(data).accept
        /\ \A prev \in {<<>>, tasks, <<I1, I3>>} : onloadFn(prev, data) = tasks
        /\ (last.op = "onload" /\ download # <<>>)
              => (last.out = "" /\ exportDocument(tasks) = download[1])

\* C39 witness: a document with two tasks, one of them archived and one without a
\* priority, was exported, a task was removed since, and the import of the document
\* has brought both back
C39_Witness ==
    /\ last.op = "onload"
    /\ download # <<>>
    /\ Len(download[1].tasks) = 2
    /\ lsTasks = tasks
    /\ Len(tasks) = 2
    /\ \E i, j \in 1..2 : tasks[i].archived /\ tasks[j].priority = Undefined

=============================================================================
